---- MODULE Spec2Model ----
(***************************************************************************)
(* LendingNFT (contracts/nft-enumerable/src/contract.rs): a Soroban        *)
(* contract that mints NFTs and lets their owner open a loan against one.  *)
(* The contract keeps its lending state in instance storage under fixed    *)
(* keys; the NFT owners live in the token library's persistent storage.    *)
(* Every invocation is one atomic step; a panic reverts the invocation.    *)
(***************************************************************************)
EXTENDS Integers, Sequences, FiniteSets, TLC

\* ---------------------------------------------------------------- bounds
MaxLoans == 2       \* create_loan is explored while next_id <= MaxLoans
MaxTime  == 1       \* the ledger time is explored up to MaxTime days
MaxOwed  == 1       \* repay_loan is explored while repaid >= -MaxOwed

\* ------------------------------------------------------- input domains
Addrs     == {"admin", "alice"}
TokenIds  == {0, 1}
\* <<amount, interest_rate, duration_days>> of the loans requested
LoanTerms == {<<2, 500, 1>>, <<0, 0, 0>>}
Payments  == {-1, 0, 1, 2}
LoanIds   == 1 .. (MaxLoans + 1)

\* -------------------------------------------------- contract error codes
OwnerNotSet             == 1
NotAuthorized           == 2
NotCollateralOwner      == 3
CollateralAlreadyLocked == 4
RepayLoanNotFound       == 5
NotBorrower             == 6
LoanNotActive           == 7
InfoLoanNotFound        == 8
\* errors raised by the token and pausable libraries the contract calls
NonExistentToken        == 200
IncorrectOwner          == 201
EnforcedPause           == 1000
ExpectedPause           == 1001

\* loan status values stored under "status"
Active == 0
Repaid == 1
Liquidated == 2

\* liquidate_loan's own failures
LoanNotExpired        == 9
LiquidateLoanNotFound == 10

SecondsPerDay == 86400

\* the ledger close times explored: the start, and the last second before
\* and the first second of each day boundary
TimePoints ==
    {0} \cup {d * SecondsPerDay - 1 : d \in 1 .. MaxTime}
        \cup {d * SecondsPerDay : d \in 1 .. MaxTime}

VARIABLES
    inst,     \* instance storage: a function from the keys present to values
    owners,   \* the NFT library's owner entries: minted token_id -> Address
    now,      \* e.ledger().timestamp()
    loans     \* history: the create_loan calls that returned, in order

vars == <<inst, owners, now, loans>>

\* e.storage().instance().get(key).unwrap_or(default)
Get(s, key, default) == IF key \in DOMAIN s THEN s[key] ELSE default

\* e.storage().instance().set(key, value)
Set(s, key, value) == (key :> value) @@ s

\* pausable::paused
paused(s) == Get(s, "paused", FALSE)

\* is_collateral
is_collateral(s, token_id) == Get(s, "collat", 0) = token_id

\* get_next_loan_id
get_next_loan_id(s) == Get(s, "next_id", 1)

\* a counter that is read but never written back
increment_next_loan_id_lost(s) == s

\* increment_next_loan_id
increment_next_loan_id(s) == Set(s, "next_id", get_next_loan_id(s) + 1)

\* get_loan_info: the loan_id argument is not read
get_loan_info(s, loan_id) ==
    IF "borrower" \notin DOMAIN s
    THEN [err |-> InfoLoanNotFound]
    ELSE [err       |-> 0,
          borrower  |-> s["borrower"],
          amount    |-> Get(s, "amount", 0),
          rate      |-> Get(s, "rate", 0),
          duration  |-> Get(s, "duration", 0),
          created   |-> Get(s, "created", 0),
          status    |-> Get(s, "status", 1),
          repaid    |-> Get(s, "repaid", 0)]

\* An invocation's outcome: error code (0 = returned normally), return
\* value, and the storage it leaves behind.
Ok(ret, s, o) == [err |-> 0, ret |-> ret, inst |-> s, owners |-> o]

\* panic_with_error!: the invocation traps and the host discards its writes
Abort(err) == [err |-> err, ret |-> 0, inst |-> inst, owners |-> owners]

\* create_loan that does not reset the repaid amount of the slot
create_loan_keeps_repaid(borrower, token_id, amount, interest_rate, duration_days, caller) ==
    IF token_id \notin DOMAIN owners THEN Abort(NonExistentToken)
    ELSE IF owners[token_id] # borrower THEN Abort(NotCollateralOwner)
    ELSE IF is_collateral(inst, token_id) THEN Abort(CollateralAlreadyLocked)
    ELSE LET loan_id == get_next_loan_id(inst)
             s1 == Set(inst, "borrower", borrower)
             s2 == Set(s1, "amount", amount)
             s3 == Set(s2, "rate", interest_rate)
             s4 == Set(s3, "duration", duration_days)
             s5 == Set(s4, "created", now)
             s6 == Set(s5, "status", Active)
             s8 == Set(s6, "collat", token_id)
         IN  Ok(loan_id, increment_next_loan_id(s8), owners)

\* create_loan that allocates the id before it looks at the collateral
\* lock, in a host that keeps the writes of a failed invocation
create_loan_allocates_first(borrower, token_id, amount, interest_rate, duration_days, caller) ==
    IF token_id \notin DOMAIN owners THEN Abort(NonExistentToken)
    ELSE IF owners[token_id] # borrower THEN Abort(NotCollateralOwner)
    ELSE IF is_collateral(inst, token_id)
         THEN [err |-> CollateralAlreadyLocked, ret |-> 0,
               inst |-> increment_next_loan_id(inst), owners |-> owners]
    ELSE LET loan_id == get_next_loan_id(inst)
             s1 == Set(inst, "borrower", borrower)
             s2 == Set(s1, "amount", amount)
             s3 == Set(s2, "rate", interest_rate)
             s4 == Set(s3, "duration", duration_days)
             s5 == Set(s4, "created", now)
             s6 == Set(s5, "status", Active)
             s7 == Set(s6, "repaid", 0)
             s8 == Set(s7, "collat", token_id)
         IN  Ok(loan_id, increment_next_loan_id(s8), owners)

\* create_loan
create_loan(borrower, token_id, amount, interest_rate, duration_days, caller) ==
    IF token_id \notin DOMAIN owners THEN Abort(NonExistentToken)
    ELSE IF owners[token_id] # borrower THEN Abort(NotCollateralOwner)
    ELSE IF is_collateral(inst, token_id) THEN Abort(CollateralAlreadyLocked)
    ELSE LET loan_id == get_next_loan_id(inst)
             s1 == Set(inst, "borrower", borrower)
             s2 == Set(s1, "amount", amount)
             s3 == Set(s2, "rate", interest_rate)
             s4 == Set(s3, "duration", duration_days)
             s5 == Set(s4, "created", now)
             s6 == Set(s5, "status", Active)
             s7 == Set(s6, "repaid", 0)
             s8 == Set(s7, "collat", token_id)
         IN  Ok(loan_id, increment_next_loan_id(s8), owners)

\* the host applies the outcome of an invocation
Commit(r) ==
    /\ inst' = r.inst
    /\ owners' = r.owners

CreateLoan ==
    \E borrower \in Addrs, token_id \in TokenIds, terms \in LoanTerms,
       caller \in Addrs :
        /\ get_next_loan_id(inst) <= MaxLoans
        /\ LET r == create_loan(borrower, token_id, terms[1], terms[2],
                                terms[3], caller)
           IN  /\ Commit(r)
               /\ loans' = IF r.err = 0
                           THEN Append(loans, [loan_id |-> r.ret,
                                               borrower |-> borrower,
                                               token_id |-> token_id])
                           ELSE loans
        /\ UNCHANGED now

\* mint that forgets to compare the caller with the stored owner
mint_by_anyone(to, token_id, caller) ==
    IF paused(inst) THEN Abort(EnforcedPause)
    ELSE IF "owner" \notin DOMAIN inst THEN Abort(OwnerNotSet)
    ELSE Ok(0, inst, (token_id :> to) @@ owners)

\* mint (#[when_not_paused]); Enumerable::non_sequential_mint writes the
\* owner entry without looking whether token_id is already minted
mint(to, token_id, caller) ==
    IF paused(inst) THEN Abort(EnforcedPause)
    ELSE IF "owner" \notin DOMAIN inst THEN Abort(OwnerNotSet)
    ELSE IF caller # inst["owner"] THEN Abort(NotAuthorized)
    ELSE Ok(0, inst, (token_id :> to) @@ owners)

Mint ==
    \E to \in Addrs, token_id \in TokenIds, caller \in Addrs :
        /\ Commit(mint(to, token_id, caller))
        /\ UNCHANGED <<now, loans>>

\* repay_loan: the loan_id argument is not read
repay_loan(loan_id, amount, caller) ==
    IF "borrower" \notin DOMAIN inst THEN Abort(RepayLoanNotFound)
    ELSE IF inst["borrower"] # caller THEN Abort(NotBorrower)
    ELSE IF Get(inst, "status", 1) # 0 THEN Abort(LoanNotActive)
    ELSE LET repaid      == Get(inst, "repaid", 0)
             new_repaid  == repaid + amount
             s1          == Set(inst, "repaid", new_repaid)
             loan_amount == Get(s1, "amount", 0)
         IN  IF new_repaid >= loan_amount
             THEN Ok(0, Set(Set(s1, "status", Repaid), "collat", 0), owners)
             ELSE Ok(0, s1, owners)

RepayLoan ==
    \E loan_id \in LoanIds, amount \in Payments, caller \in Addrs :
        /\ Get(inst, "repaid", 0) + amount >= -MaxOwed
        /\ Commit(repay_loan(loan_id, amount, caller))
        /\ UNCHANGED <<now, loans>>

\* NonFungibleToken::transfer (#[when_not_paused]) -> Enumerable::transfer;
\* `from` authorizes the invocation
transfer(from, to, token_id) ==
    IF paused(inst) THEN Abort(EnforcedPause)
    ELSE IF token_id \notin DOMAIN owners THEN Abort(NonExistentToken)
    ELSE IF owners[token_id] # from THEN Abort(IncorrectOwner)
    ELSE Ok(0, inst, (token_id :> to) @@ owners)

Transfer ==
    \E from \in Addrs, to \in Addrs, token_id \in TokenIds :
        /\ Commit(transfer(from, to, token_id))
        /\ UNCHANGED <<now, loans>>

\* NonFungibleBurnable::burn (#[when_not_paused]) -> Enumerable::burn
burn(from, token_id) ==
    IF paused(inst) THEN Abort(EnforcedPause)
    ELSE IF token_id \notin DOMAIN owners THEN Abort(NonExistentToken)
    ELSE IF owners[token_id] # from THEN Abort(IncorrectOwner)
    ELSE Ok(0, inst, [t \in DOMAIN owners \ {token_id} |-> owners[t]])

Burn ==
    \E from \in Addrs, token_id \in TokenIds :
        /\ Commit(burn(from, token_id))
        /\ UNCHANGED <<now, loans>>

\* Pausable::pause
pause(caller) ==
    IF "owner" \notin DOMAIN inst THEN Abort(OwnerNotSet)
    ELSE IF caller # inst["owner"] THEN Abort(NotAuthorized)
    ELSE IF paused(inst) THEN Abort(EnforcedPause)
    ELSE Ok(0, Set(inst, "paused", TRUE), owners)

Pause ==
    \E caller \in Addrs :
        /\ Commit(pause(caller))
        /\ UNCHANGED <<now, loans>>

\* Pausable::unpause
unpause(caller) ==
    IF "owner" \notin DOMAIN inst THEN Abort(OwnerNotSet)
    ELSE IF caller # inst["owner"] THEN Abort(NotAuthorized)
    ELSE IF ~paused(inst) THEN Abort(ExpectedPause)
    ELSE Ok(0, Set(inst, "paused", FALSE), owners)

Unpause ==
    \E caller \in Addrs :
        /\ Commit(unpause(caller))
        /\ UNCHANGED <<now, loans>>

\* the ledger closes and the timestamp advances
Tick ==
    \E t \in TimePoints :
        /\ t > now
        /\ now' = t
        /\ UNCHANGED <<inst, owners, loans>>

\* liquidate_loan (called by the tests, absent from the contract): the
\* specified behaviour on the contract's storage. The loan's collateral is
\* the token the "collat" slot holds; release writes 0 as repay_loan does.
liquidate_loan(loan_id, caller) ==
    IF paused(inst) THEN Abort(EnforcedPause)
    ELSE IF "borrower" \notin DOMAIN inst THEN Abort(LiquidateLoanNotFound)
    ELSE IF Get(inst, "status", 1) # Active THEN Abort(LoanNotActive)
    ELSE IF now < Get(inst, "created", 0)
                  + Get(inst, "duration", 0) * SecondsPerDay
         THEN Abort(LoanNotExpired)
    ELSE LET token_id == Get(inst, "collat", 0)
             borrower == inst["borrower"]
         IN  IF token_id \notin DOMAIN owners THEN Abort(NonExistentToken)
             ELSE IF owners[token_id] # borrower THEN Abort(IncorrectOwner)
             ELSE Ok(0, Set(Set(inst, "status", Liquidated), "collat", 0),
                     (token_id :> caller) @@ owners)

LiquidateLoan ==
    \E loan_id \in LoanIds, caller \in Addrs :
        /\ Commit(liquidate_loan(loan_id, caller))
        /\ UNCHANGED <<now, loans>>

\* __constructor(owner): the state right after deployment
Init ==
    /\ inst = ("owner" :> "admin")
    /\ owners = <<>>
    /\ now = 0
    /\ loans = <<>>

Next ==
    \/ Transfer
    \/ Burn
    \/ Mint
    \/ CreateLoan
    \/ RepayLoan
    \/ Pause
    \/ Unpause
    \/ LiquidateLoan
    \/ Tick

Spec == Init /\ [][Next]_vars
\* ------------------------------------------------- interest (spec 4.2)
BasisPoints == 10000

\* whole days from created_at to at_time, clamped to [0, duration_days]
elapsed_days(record, at_time) ==
    LET raw == IF at_time <= record.created THEN 0
               ELSE (at_time - record.created) \div SecondsPerDay
    IN  IF raw > record.duration THEN record.duration ELSE raw

\* interest that keeps accruing after the term has ended
calculate_interest_unclamped(record, at_time) ==
    (record.amount * record.rate
        * ((at_time - record.created) \div SecondsPerDay))
        \div (BasisPoints * record.duration)

\* calculate_interest (called by the tests, absent from the contract), for
\* a record with duration_days > 0
calculate_interest(record, at_time) ==
    (record.amount * record.rate * elapsed_days(record, at_time))
        \div (BasisPoints * record.duration)

\* the loans calculate_interest is applied to
InterestPrincipals == {1, 3, 1000}
InterestRates      == {0, 1000, 2500}
InterestDurations  == {1, 2, 365}
InterestCreated    == {0, 100}

\* seconds after created_at at which the interest is asked for
InterestOffsets(duration_days) ==
    {0, 1, SecondsPerDay - 1, SecondsPerDay,
     duration_days * SecondsPerDay - 1, duration_days * SecondsPerDay,
     duration_days * SecondsPerDay + 1, (duration_days + 1) * SecondsPerDay}

\* one loan of alice on token 1, just created with the terms drawn
InterestInit ==
    \E amount \in InterestPrincipals, interest_rate \in InterestRates,
       duration_days \in InterestDurations, created \in InterestCreated :
        /\ owners = (1 :> "alice")
        /\ now = created
        /\ loans = <<[loan_id |-> 1, borrower |-> "alice", token_id |-> 1]>>
        /\ inst = [owner |-> "admin", borrower |-> "alice",
                   amount |-> amount, rate |-> interest_rate,
                   duration |-> duration_days, created |-> created,
                   status |-> Active, repaid |-> 0, collat |-> 1,
                   next_id |-> 2]

\* the ledger time advances; the interest is a function of the record read
\* by get_loan_info and of the time
InterestTick ==
    \E o \in InterestOffsets(inst["duration"]) :
        /\ inst["created"] + o > now
        /\ now' = inst["created"] + o
        /\ UNCHANGED <<inst, owners, loans>>

SpecInterest == InterestInit /\ [][InterestTick]_vars

\* ------------------------------------------------------------ the claims
LoanIdx == 1 .. Len(loans)

\* what get_loan_info reports now for the i-th loan created
InfoOf(i) == get_loan_info(inst, loans[i].loan_id)

Min(a, b) == IF a <= b THEN a ELSE b

\* C1: a collateral_id backs at most one loan reported Active, and
\* create_loan by the owner on a collateral_id whose loan is still Active
\* fails with CollateralAlreadyLocked, whatever the caller and the terms.
C1_CollateralUniqueness ==
    \A i \in LoanIdx :
        InfoOf(i).status = Active =>
            /\ \A j \in LoanIdx :
                   (j # i /\ loans[j].token_id = loans[i].token_id)
                       => InfoOf(j).status # Active
            /\ \A borrower \in Addrs, terms \in LoanTerms, caller \in Addrs :
                   (/\ loans[i].token_id \in DOMAIN owners
                    /\ owners[loans[i].token_id] = borrower)
                       => create_loan(borrower, loans[i].token_id, terms[1],
                                      terms[2], terms[3], caller).err
                              = CollateralAlreadyLocked

\* C2: the status reported for a loan only moves Active -> Repaid or
\* Active -> Liquidated; once it is not Active, the status and the
\* repaid amount reported for that loan never change again.
C2_StatusIrreversible ==
    [][\A i \in LoanIdx :
           LET before == get_loan_info(inst, loans[i].loan_id)
               after  == get_loan_info(inst', loans[i].loan_id)
           IN  IF before.status = Active
               THEN after.status \in {Active, Repaid, Liquidated}
               ELSE /\ after.status = before.status
                    /\ after.repaid = before.repaid]_vars

\* C3: a repay_loan that returns leaves repaid_amount >= its old value and
\* equal to min(principal, old repaid_amount + amount).
C3_RepaymentResult ==
    \A i \in LoanIdx, amount \in Payments, caller \in Addrs :
        LET r == repay_loan(loans[i].loan_id, amount, caller)
            old == InfoOf(i)
            new == get_loan_info(r.inst, loans[i].loan_id)
        IN  r.err = 0 =>
                /\ new.repaid >= old.repaid
                /\ new.repaid = Min(old.amount, old.repaid + amount)

\* C4: for every loan, repaid_amount >= principal implies that its status is
\* Repaid and that is_collateral(collateral_id) is false.
C4_FullRepaymentReleases ==
    \A i \in LoanIdx :
        InfoOf(i).repaid >= InfoOf(i).amount =>
            /\ InfoOf(i).status = Repaid
            /\ ~is_collateral(inst, loans[i].token_id)

\* C5: is_collateral(collateral_id) is true exactly when some loan reported
\* Active was created on that collateral_id.
C5_IsCollateralIffActive ==
    \A token_id \in TokenIds :
        is_collateral(inst, token_id) <=>
            \E i \in LoanIdx : /\ loans[i].token_id = token_id
                               /\ InfoOf(i).status = Active

\* C6: right after a create_loan that returns loan_id, is_collateral of the
\* token is true and get_loan_info(loan_id) reports the supplied borrower,
\* principal, rate and duration, created_at = the ledger time, status
\* Active and repaid_amount 0.
C6_CreatePostState ==
    \A borrower \in Addrs, token_id \in TokenIds, terms \in LoanTerms,
       caller \in Addrs :
        LET r == create_loan(borrower, token_id, terms[1], terms[2],
                             terms[3], caller)
        IN  r.err = 0 =>
                /\ is_collateral(r.inst, token_id)
                /\ get_loan_info(r.inst, r.ret)
                       = [err |-> 0, borrower |-> borrower,
                          amount |-> terms[1], rate |-> terms[2],
                          duration |-> terms[3], created |-> now,
                          status |-> Active, repaid |-> 0]

\* a loan was repaid in part or in full and a further create_loan succeeds
C6_Witness ==
    /\ Len(loans) >= 1
    /\ Get(inst, "repaid", 0) # 0
    /\ now > 0
    /\ \E borrower \in Addrs, token_id \in TokenIds, terms \in LoanTerms :
           create_loan(borrower, token_id, terms[1], terms[2], terms[3],
                       borrower).err = 0

\* C7: the i-th create_loan that returns, returns i (1 first, then the
\* previous id + 1), and the allocator counter is always the number of
\* loans created + 1: nothing else moves it.
C7_LoanIdsNeverReused ==
    /\ \A i \in LoanIdx : loans[i].loan_id = i
    /\ get_next_loan_id(inst) = Len(loans) + 1

\* two loans were created and the first was repaid in between
C7_Witness ==
    /\ Len(loans) >= 2
    /\ loans[2].loan_id = 2
    /\ Get(inst, "status", 1) = Repaid

C9_OnlyBorrowerRepays ==
    \A i \in LoanIdx, amount \in Payments, caller \in Addrs :
        caller # loans[i].borrower =>
            LET r == repay_loan(loans[i].loan_id, amount, caller)
            IN  /\ r.err = NotBorrower
                /\ r.inst = inst

\* C10: create_loan fails with NotCollateralOwner whenever the current owner
\* of the token is not the borrower argument (a token nobody owns
\* included), and then creates nothing and consumes no id.
C10_NotOwnerRejected ==
    \A borrower \in Addrs, token_id \in TokenIds, terms \in LoanTerms,
       caller \in Addrs :
        (token_id \notin DOMAIN owners \/ owners[token_id] # borrower) =>
            LET r == create_loan(borrower, token_id, terms[1], terms[2],
                                 terms[3], caller)
            IN  /\ r.err = NotCollateralOwner
                /\ r.inst = inst
                /\ r.owners = owners

\* the loan ids some create_loan call has returned
Issued == {loans[i].loan_id : i \in LoanIdx}

\* C11: repay_loan with amount <= 0 by the loan's borrower on a loan
\* reported Active fails (InvalidAmount), so a repay_loan that returns
\* leaves repaid_amount strictly greater than before.
C11_NonPositiveAmountRejected ==
    \A i \in LoanIdx, amount \in Payments :
        LET r == repay_loan(loans[i].loan_id, amount, loans[i].borrower)
        IN  /\ (InfoOf(i).status = Active /\ amount <= 0) => r.err # 0
            /\ r.err = 0 => get_loan_info(r.inst, loans[i].loan_id).repaid
                                > InfoOf(i).repaid

\* C12: repay_loan by the loan's borrower on a loan reported Repaid or
\* Liquidated fails with LoanNotActive and leaves repaid_amount and status
\* as they were, for every amount.
C12_TerminalLoanNotRepayable ==
    \A i \in LoanIdx, amount \in Payments :
        InfoOf(i).status # Active =>
            LET r == repay_loan(loans[i].loan_id, amount, loans[i].borrower)
            IN  /\ r.err = LoanNotActive
                /\ get_loan_info(r.inst, loans[i].loan_id).repaid
                       = InfoOf(i).repaid
                /\ get_loan_info(r.inst, loans[i].loan_id).status
                       = InfoOf(i).status

\* C13: create_loan with principal <= 0 or duration_days <= 0 fails
\* (InvalidLoanTerms), and every stored loan record has principal > 0 and
\* duration_days > 0.
C13_InvalidTermsRejected ==
    /\ \A borrower \in Addrs, token_id \in TokenIds, terms \in LoanTerms,
          caller \in Addrs :
           (terms[1] <= 0 \/ terms[3] <= 0) =>
               create_loan(borrower, token_id, terms[1], terms[2], terms[3],
                           caller).err # 0
    /\ \A i \in LoanIdx : InfoOf(i).amount > 0 /\ InfoOf(i).duration > 0

\* C14: while the contract is paused every create_loan fails
\* (ContractPaused): it creates no loan, locks nothing and allocates no id.
C14_PausedBlocksCreateLoan ==
    paused(inst) =>
        \A borrower \in Addrs, token_id \in TokenIds, terms \in LoanTerms,
           caller \in Addrs :
            LET r == create_loan(borrower, token_id, terms[1], terms[2],
                                 terms[3], caller)
            IN  r.err # 0 /\ r.inst = inst

\* C15: for every loan_id that no create_loan has returned, get_loan_info
\* and repay_loan fail with LoanNotFound, also when other loans exist.
C15_UnknownLoanRejected ==
    \A loan_id \in LoanIds \ Issued :
        /\ get_loan_info(inst, loan_id).err = InfoLoanNotFound
        /\ \A amount \in Payments, caller \in Addrs :
               repay_loan(loan_id, amount, caller).err = RepayLoanNotFound

\* C16: while the contract is not paused, liquidate_loan on a loan reported
\* Active fails with LoanNotExpired at every time before
\* created_at + duration_days * 86400 and succeeds from that instant on for
\* any caller; then the status is Liquidated, the lock on the loan's
\* collateral is released and the caller owns the collateral.
C16_LiquidationGatedByExpiry ==
    \A i \in LoanIdx, caller \in Addrs :
        (InfoOf(i).status = Active /\ ~paused(inst)) =>
            LET r == liquidate_loan(loans[i].loan_id, caller)
                expiry == InfoOf(i).created
                              + InfoOf(i).duration * SecondsPerDay
            IN  IF now < expiry
                THEN r.err = LoanNotExpired
                ELSE /\ r.err = 0
                     /\ get_loan_info(r.inst, loans[i].loan_id).status
                            = Liquidated
                     /\ ~is_collateral(r.inst, loans[i].token_id)
                     /\ loans[i].token_id \in DOMAIN r.owners
                     /\ r.owners[loans[i].token_id] = caller

\* C17: calculate_interest is floor(principal * rate_bps * d / (10000 *
\* duration_days)) with d the whole days elapsed since created_at, at most
\* duration_days: 0 at elapsed 0, the full-term value from term end on, and
\* 100 for principal 1000, 1000 bps, 365 days fully elapsed.
C17_InterestFormula ==
    LET rec      == get_loan_info(inst, 1)
        elapsed  == now - rec.created
        term     == rec.duration * SecondsPerDay
        interest == calculate_interest(rec, now)
        product  == rec.amount * rec.rate
        divisor  == BasisPoints * rec.duration
    IN  /\ \E d \in 0 .. rec.duration :
               /\ \/ d = rec.duration /\ elapsed >= term
                  \/ /\ d < rec.duration
                     /\ d * SecondsPerDay <= elapsed
                     /\ elapsed < (d + 1) * SecondsPerDay
               /\ interest * divisor <= product * d
               /\ product * d < (interest + 1) * divisor
        /\ elapsed = 0 => interest = 0
        /\ elapsed >= term => interest * BasisPoints <= product
                              /\ product < (interest + 1) * BasisPoints
        /\ (/\ rec.amount = 1000 /\ rec.rate = 1000 /\ rec.duration = 365
            /\ elapsed = 365 * SecondsPerDay) => interest = 100

\* the example loan one day after its term ended, still at interest 100
C17_Witness ==
    /\ inst["amount"] = 1000 /\ inst["rate"] = 1000 /\ inst["duration"] = 365
    /\ now - inst["created"] = 366 * SecondsPerDay
    /\ calculate_interest(get_loan_info(inst, 1), now) = 100

\* C18 as stated: pause, unpause and mint by a caller other than the
\* administrator fail with NotAuthorized and leave the pause flag and the
\* asset owners unchanged; the administrator set at construction never
\* changes.
C18_AdminOnly_AsStated ==
    /\ "owner" \in DOMAIN inst /\ inst["owner"] = "admin"
    /\ \A caller \in Addrs \ {"admin"} :
           /\ pause(caller).err = NotAuthorized
           /\ pause(caller).inst = inst
           /\ unpause(caller).err = NotAuthorized
           /\ unpause(caller).inst = inst
           /\ \A to \in Addrs, token_id \in TokenIds :
                  /\ mint(to, token_id, caller).err = NotAuthorized
                  /\ mint(to, token_id, caller).inst = inst
                  /\ mint(to, token_id, caller).owners = owners

\* C18 amended: as stated, except that while the contract is paused mint
\* fails with the pause gate's EnforcedPause, for every caller, before the
\* caller is looked at.
C18_AdminOnly ==
    /\ "owner" \in DOMAIN inst /\ inst["owner"] = "admin"
    /\ \A caller \in Addrs \ {"admin"} :
           /\ pause(caller).err = NotAuthorized
           /\ pause(caller).inst = inst
           /\ unpause(caller).err = NotAuthorized
           /\ unpause(caller).inst = inst
           /\ \A to \in Addrs, token_id \in TokenIds :
                  /\ mint(to, token_id, caller).err
                         = IF paused(inst) THEN EnforcedPause
                           ELSE NotAuthorized
                  /\ mint(to, token_id, caller).inst = inst
                  /\ mint(to, token_id, caller).owners = owners

\* paused, with a token minted to alice: her mint, pause and unpause fail
C18_Witness ==
    /\ paused(inst)
    /\ 1 \in DOMAIN owners /\ owners[1] = "alice"
    /\ mint("alice", 0, "alice").err = EnforcedPause
    /\ pause("alice").err = NotAuthorized
    /\ unpause("alice").err = NotAuthorized

\* C19: a create_loan or repay_loan that returns changes no field of any
\* loan record other than the one it creates or addresses: for every
\* earlier loan get_loan_info keeps reporting the same record.
C19_LoanIsolation ==
    /\ \A borrower \in Addrs, token_id \in TokenIds, terms \in LoanTerms,
          caller \in Addrs :
           LET r == create_loan(borrower, token_id, terms[1], terms[2],
                                terms[3], caller)
           IN  r.err = 0 =>
                   \A i \in LoanIdx :
                       get_loan_info(r.inst, loans[i].loan_id) = InfoOf(i)
    /\ \A j \in LoanIdx, amount \in Payments, caller \in Addrs :
           LET r == repay_loan(loans[j].loan_id, amount, caller)
           IN  r.err = 0 =>
                   \A i \in LoanIdx \ {j} :
                       get_loan_info(r.inst, loans[i].loan_id) = InfoOf(i)

\* C20: while a loan is reported Active the owner of its collateral is the
\* loan's borrower, and while is_collateral reports that collateral locked
\* no transfer and no burn of it succeeds.
C20_LockedCollateralStays ==
    \A i \in LoanIdx :
        InfoOf(i).status = Active =>
            /\ loans[i].token_id \in DOMAIN owners
            /\ owners[loans[i].token_id] = loans[i].borrower
            /\ is_collateral(inst, loans[i].token_id) =>
                   \A from \in Addrs, to \in Addrs :
                       /\ transfer(from, to, loans[i].token_id).err # 0
                       /\ burn(from, loans[i].token_id).err # 0
====
